---------------------------- MODULE Spec2Model ----------------------------
(***************************************************************************)
(* Model of the feelsocial REST API: the friend-request handlers of        *)
(* userController.ts (sendRequest, removeFriend, removeFriendRequest,      *)
(* acceptRequest, rejectFriendRequest) and the friend-suggestion query     *)
(* getSuggestUsers, over a store of user, post and comment documents.      *)
(***************************************************************************)
EXTENDS Integers, Sequences, FiniteSets, TLC

(***************************************************************************)
(* Bounds of the model.                                                    *)
(***************************************************************************)
\* number of registered users in the friend-request specifications
NumUsers == 3
\* number of handler calls in one behaviour of Spec and SpecFault
MaxOps == 4
\* number of users in the stores that getSuggestUsers is run on
NumProfiles == 4
\* number of friendships, pending requests, likes and comments in such a store
MaxFacts == 2
\* largest limit and page query parameter tried
MaxLimit == 4
MaxPage == 2
\* number of post handler calls in one behaviour of SpecPosts
MaxPostOps == 3
\* number of friendships in the stores of SpecScore
MaxFriendships == 4
\* number of users in the largest store of SpecLimit, and the largest limit
\* tried on it
NumRegistered == 22

Users == 1..NumUsers
\* a well-formed ObjectId that references no user document
NoUser == 0
\* every id that passes isMongoId() in validateParamUserId
Ids == Users \cup {NoUser}

(***************************************************************************)
(* MongoDB array operators on the friends / friendRequests arrays.         *)
(***************************************************************************)
\* query { field: x } on an array field: some element equals x
Contains(arr, x) == \E i \in 1..Len(arr) : arr[i] = x

\* number of occurrences of x in the array
Count(arr, x) == Cardinality({i \in 1..Len(arr) : arr[i] = x})

\* $addToSet: appends x unless it is already present
AddToSet(arr, x) == IF Contains(arr, x) THEN arr ELSE Append(arr, x)

\* $pull: removes every occurrence of x
Pull(arr, x) == SelectSeq(arr, LAMBDA y : y # x)

\* User.create({username, email, password}): both arrays start empty
NewUser == [friends |-> << >>, friendRequests |-> << >>]

\* User.findById(id): does a document with this _id exist
FindById(coll, id) == id \in DOMAIN coll

\* User.updateOne({_id: id}, update): no document matched, nothing written
UpdateOne(coll, id, doc) == IF id \in DOMAIN coll THEN [coll EXCEPT ![id] = doc] ELSE coll

(***************************************************************************)
(* State.                                                                  *)
(***************************************************************************)
VARIABLES
    users,      \* the users collection: _id -> [friends, friendRequests]
    prevUsers,  \* the users collection when the last handler call started
    lastOp,     \* the last handler call: op, caller, target, response status
    repeated,   \* the last call repeated the call before it, which had answered 200
    nOps,       \* number of handler calls so far
    rq,         \* SpecRace: the two requests in flight, each with its position
    sched,      \* SpecRace: the order in which the requests took their steps
    posts,      \* the posts collection: sequence of [author, likes]
    comments,   \* the comments collection: sequence of [author, post]
    hist,       \* SpecPosts: posts and comments when the last call started, and
                \* posts when the call before it started
    resp,       \* SpecSuggest: the last getSuggestUsers call and its response
    walk        \* SpecPages: the calls of one client paging through the list

friendVars == <<prevUsers, lastOp, repeated, nOps>>
raceVars == <<rq, sched>>
contentVars == <<posts, comments, hist>>
suggestVars == <<resp, walk>>
vars == <<users, friendVars, raceVars, contentVars, suggestVars>>

NoOp == [op |-> "none", caller |-> NoUser, target |-> NoUser, status |-> 0]

\* the requests that SpecRace runs concurrently
Procs == {1, 2}
NoRequest == [op |-> "none", caller |-> NoUser, target |-> NoUser,
              pc |-> "done", status |-> 0]

\* no getSuggestUsers call has been made
NoResp == [me |-> NoUser, limit |-> 0, page |-> 0, status |-> 0,
           suggested |-> << >>, random |-> << >>, body |-> << >>,
           skip |-> -1, scores |-> << >>, mutual |-> {}, liked |-> {},
           commented |-> {}, threw |-> 0]

\* no post handler has been called
NoHist == [posts2 |-> << >>, posts1 |-> << >>, comments1 |-> << >>]

\* no client is paging
NoWalk == [scored |-> << >>, pool |-> << >>, limit |-> 0, pages |-> << >>,
           whole |-> NoResp]

(***************************************************************************)
(* sendRequest: the caller asks the target to become a friend.             *)
(***************************************************************************)
\* faulty variant: the query forgets the friendRequests branch of the $or
SendRequestFound_FriendsOnly(coll, me, userId) ==
    /\ userId \in DOMAIN coll
    /\ Contains(coll[userId].friends, me)

\* faulty variant: the query forgets the friends branch of the $or
SendRequestFound_RequestsOnly(coll, me, userId) ==
    /\ userId \in DOMAIN coll
    /\ Contains(coll[userId].friendRequests, me)

\* User.findOne({$or: [{_id, friendRequests: me}, {_id, friends: me}]})
SendRequestFound(coll, me, userId) ==
    /\ userId \in DOMAIN coll
    /\ \/ Contains(coll[userId].friendRequests, me)
       \/ Contains(coll[userId].friends, me)

\* User.updateOne({_id: userId}, {$addToSet: {friendRequests: me}})
SendRequestWrite(coll, me, userId) ==
    IF userId \in DOMAIN coll
    THEN UpdateOne(coll, userId,
            [coll[userId] EXCEPT !.friendRequests = AddToSet(@, me)])
    ELSE coll

\* the whole handler; fault = ordinal of the store call that throws (0: none)
SendRequestRun(coll, me, userId, fault) ==
    IF fault = 1 THEN [users |-> coll, status |-> 500]
    ELSE IF SendRequestFound(coll, me, userId) THEN [users |-> coll, status |-> 403]
    ELSE IF fault = 2 THEN [users |-> coll, status |-> 500]
    ELSE IF ~FindById(coll, userId) THEN [users |-> coll, status |-> 403]
    ELSE IF fault = 3 THEN [users |-> coll, status |-> 500]
    ELSE [users |-> SendRequestWrite(coll, me, userId), status |-> 200]

(***************************************************************************)
(* removeFriend                                                            *)
(***************************************************************************)
\* User.findOne({_id: userId, friends: me})
RemoveFriendFound(coll, me, userId) ==
    /\ userId \in DOMAIN coll
    /\ Contains(coll[userId].friends, me)

\* faulty variant: pulls the caller's own id from the caller's friends
RemoveFriendWrite1_PullsSelf(coll, me, userId) ==
    IF me \in DOMAIN coll
    THEN UpdateOne(coll, me, [coll[me] EXCEPT !.friends = Pull(@, me)])
    ELSE coll

\* User.updateOne({_id: me}, {$pull: {friends: userId}})
RemoveFriendWrite1(coll, me, userId) ==
    IF me \in DOMAIN coll
    THEN UpdateOne(coll, me, [coll[me] EXCEPT !.friends = Pull(@, userId)])
    ELSE coll

\* faulty variant: the second write addresses the caller's document again
RemoveFriendWrite2_WrongDoc(coll, me, userId) ==
    IF me \in DOMAIN coll
    THEN UpdateOne(coll, me, [coll[me] EXCEPT !.friends = Pull(@, userId)])
    ELSE coll

\* User.updateOne({_id: userId}, {$pull: {friends: me}})
RemoveFriendWrite2(coll, me, userId) ==
    IF userId \in DOMAIN coll
    THEN UpdateOne(coll, userId, [coll[userId] EXCEPT !.friends = Pull(@, me)])
    ELSE coll

RemoveFriendRun(coll, me, userId, fault) ==
    IF fault = 1 THEN [users |-> coll, status |-> 500]
    ELSE IF ~RemoveFriendFound(coll, me, userId) THEN [users |-> coll, status |-> 400]
    ELSE IF fault = 2 THEN [users |-> coll, status |-> 500]
    ELSE IF fault = 3
         THEN [users |-> RemoveFriendWrite1(coll, me, userId), status |-> 500]
    ELSE [users |-> RemoveFriendWrite2(RemoveFriendWrite1(coll, me, userId), me, userId),
          status |-> 200]

(***************************************************************************)
(* removeFriendRequest: the sender cancels a request sent to userId.       *)
(***************************************************************************)
\* User.findOne({_id: userId, friendRequests: me})
RemoveFriendRequestFound(coll, me, userId) ==
    /\ userId \in DOMAIN coll
    /\ Contains(coll[userId].friendRequests, me)

\* User.updateOne({_id: userId}, {$pull: {friendRequests: me}})
RemoveFriendRequestWrite(coll, me, userId) ==
    IF userId \in DOMAIN coll
    THEN UpdateOne(coll, userId,
            [coll[userId] EXCEPT !.friendRequests = Pull(@, me)])
    ELSE coll

RemoveFriendRequestRun(coll, me, userId, fault) ==
    IF fault = 1 THEN [users |-> coll, status |-> 500]
    ELSE IF ~RemoveFriendRequestFound(coll, me, userId)
         THEN [users |-> coll, status |-> 400]
    ELSE IF fault = 2 THEN [users |-> coll, status |-> 500]
    ELSE [users |-> RemoveFriendRequestWrite(coll, me, userId), status |-> 200]

(***************************************************************************)
(* acceptRequest: the caller accepts the request sent by userId.           *)
(***************************************************************************)
\* faulty variant: looks for the caller in the other user's friendRequests
AcceptRequestFound_Reversed(coll, me, userId) ==
    /\ userId \in DOMAIN coll
    /\ Contains(coll[userId].friendRequests, me)

\* User.findOne({_id: me, friendRequests: userId})
AcceptRequestFound(coll, me, userId) ==
    /\ me \in DOMAIN coll
    /\ Contains(coll[me].friendRequests, userId)

\* User.updateOne({_id: me}, {$addToSet: {friends: userId}, $pull: {friendRequests: userId}})
AcceptRequestWrite1(coll, me, userId) ==
    IF me \in DOMAIN coll
    THEN UpdateOne(coll, me,
            [coll[me] EXCEPT !.friends = AddToSet(@, userId),
                             !.friendRequests = Pull(@, userId)])
    ELSE coll

\* faulty variant: the second write addresses the caller's document again
AcceptRequestWrite2_WrongDoc(coll, me, userId) ==
    IF me \in DOMAIN coll
    THEN UpdateOne(coll, me,
            [coll[me] EXCEPT !.friends = AddToSet(@, userId),
                             !.friendRequests = Pull(@, userId)])
    ELSE coll

\* faulty variant: the second write omits the $pull of friendRequests
AcceptRequestWrite2_KeepsRequest(coll, me, userId) ==
    IF userId \in DOMAIN coll
    THEN UpdateOne(coll, userId, [coll[userId] EXCEPT !.friends = AddToSet(@, me)])
    ELSE coll

\* User.updateOne({_id: userId}, {$addToSet: {friends: me}, $pull: {friendRequests: me}})
AcceptRequestWrite2(coll, me, userId) ==
    IF userId \in DOMAIN coll
    THEN UpdateOne(coll, userId,
            [coll[userId] EXCEPT !.friends = AddToSet(@, me),
                                 !.friendRequests = Pull(@, me)])
    ELSE coll

AcceptRequestRun(coll, me, userId, fault) ==
    IF fault = 1 THEN [users |-> coll, status |-> 500]
    ELSE IF ~AcceptRequestFound(coll, me, userId) THEN [users |-> coll, status |-> 400]
    ELSE IF fault = 2 THEN [users |-> coll, status |-> 500]
    ELSE IF fault = 3
         THEN [users |-> AcceptRequestWrite1(coll, me, userId), status |-> 500]
    ELSE [users |-> AcceptRequestWrite2(AcceptRequestWrite1(coll, me, userId), me, userId),
          status |-> 200]

(***************************************************************************)
(* rejectFriendRequest: the caller rejects the request sent by userId.     *)
(***************************************************************************)
\* User.findOne({_id: me, friendRequests: userId})
RejectFriendRequestFound(coll, me, userId) ==
    /\ me \in DOMAIN coll
    /\ Contains(coll[me].friendRequests, userId)

\* faulty variant: the update drops every pending request of the caller
RejectFriendRequestWrite_DropsAll(coll, me, userId) ==
    IF me \in DOMAIN coll
    THEN UpdateOne(coll, me, [coll[me] EXCEPT !.friendRequests = << >>])
    ELSE coll

\* User.updateOne({_id: me}, {$pull: {friendRequests: userId}})
RejectFriendRequestWrite(coll, me, userId) ==
    IF me \in DOMAIN coll
    THEN UpdateOne(coll, me, [coll[me] EXCEPT !.friendRequests = Pull(@, userId)])
    ELSE coll

RejectFriendRequestRun(coll, me, userId, fault) ==
    IF fault = 1 THEN [users |-> coll, status |-> 500]
    ELSE IF ~RejectFriendRequestFound(coll, me, userId)
         THEN [users |-> coll, status |-> 400]
    ELSE IF fault = 2 THEN [users |-> coll, status |-> 500]
    ELSE [users |-> RejectFriendRequestWrite(coll, me, userId), status |-> 200]

(***************************************************************************)
(* Spec: handler calls executed one at a time against an available store.  *)
(***************************************************************************)
\* the store after registerUser created the users: nobody has friends or requests
Init ==
    /\ users = [u \in Users |-> NewUser]
    /\ prevUsers = users
    /\ lastOp = NoOp
    /\ repeated = FALSE
    /\ nOps = 0
    /\ rq = [p \in Procs |-> NoRequest]
    /\ sched = << >>
    /\ hist = NoHist
    /\ posts = << >>
    /\ comments = << >>
    /\ resp = NoResp
    /\ walk = NoWalk

\* one handler call completes with outcome r
Finish(name, me, userId, r) ==
    /\ nOps < MaxOps
    /\ users' = r.users
    /\ prevUsers' = users
    /\ lastOp' = [op |-> name, caller |-> me, target |-> userId, status |-> r.status]
    /\ repeated' = (lastOp = [op |-> name, caller |-> me, target |-> userId, status |-> 200])
    /\ nOps' = nOps + 1
    /\ UNCHANGED <<raceVars, contentVars, suggestVars>>

sendRequest(me, userId, fault) ==
    Finish("sendRequest", me, userId, SendRequestRun(users, me, userId, fault))

removeFriend(me, userId, fault) ==
    Finish("removeFriend", me, userId, RemoveFriendRun(users, me, userId, fault))

removeFriendRequest(me, userId, fault) ==
    Finish("removeFriendRequest", me, userId,
           RemoveFriendRequestRun(users, me, userId, fault))

acceptRequest(me, userId, fault) ==
    Finish("acceptRequest", me, userId, AcceptRequestRun(users, me, userId, fault))

rejectFriendRequest(me, userId, fault) ==
    Finish("rejectFriendRequest", me, userId,
           RejectFriendRequestRun(users, me, userId, fault))

Next ==
    \E me \in Users, userId \in Ids :
        \/ sendRequest(me, userId, 0)
        \/ removeFriend(me, userId, 0)
        \/ removeFriendRequest(me, userId, 0)
        \/ acceptRequest(me, userId, 0)
        \/ rejectFriendRequest(me, userId, 0)

Spec == Init /\ [][Next]_vars

(***************************************************************************)
(* SpecSeed: the handler calls, one at a time, against the store the seed   *)
(* script wrote.                                                            *)
(***************************************************************************)
\* the number of entries of usersData in createDummyUsers
NumSeeded == 10

\* User.findByIdAndUpdate(id, { $push: { <path>: x } })
Push(arr, x) == Append(arr, x)

\* createFriendConnections(users), users[i] of the script being user i + 1
CreateFriendConnections(coll) ==
    LET c1 == UpdateOne(coll, 1, [coll[1] EXCEPT !.friends = Push(@, 2)])
        c2 == UpdateOne(c1, 2, [c1[2] EXCEPT !.friends = Push(@, 1)])
        c3 == UpdateOne(c2, 3, [c2[3] EXCEPT !.friendRequests = Push(@, 4)])
        c4 == UpdateOne(c3, 4, [c3[4] EXCEPT !.friends = Push(@, 3)])
    IN  c4

\* seedDatabase: createDummyUsers, then createFriendConnections
InitSeed ==
    /\ users = CreateFriendConnections([u \in 1..NumSeeded |-> NewUser])
    /\ prevUsers = users
    /\ lastOp = NoOp
    /\ repeated = FALSE
    /\ nOps = 0
    /\ rq = [p \in Procs |-> NoRequest]
    /\ sched = << >>
    /\ hist = NoHist
    /\ posts = << >>
    /\ comments = << >>
    /\ resp = NoResp
    /\ walk = NoWalk

\* the callers and targets are drawn from the users the script connected
NextSeed ==
    \E me \in 1..4, userId \in 1..4 :
        \/ sendRequest(me, userId, 0)
        \/ removeFriend(me, userId, 0)
        \/ removeFriendRequest(me, userId, 0)
        \/ acceptRequest(me, userId, 0)
        \/ rejectFriendRequest(me, userId, 0)

SpecSeed == InitSeed /\ [][NextSeed]_vars

(***************************************************************************)
(* SpecPosts: deletePost and likePost called one at a time on the posts and *)
(* comments the seed script wrote.                                          *)
(***************************************************************************)
\* a well-formed ObjectId that references no post document
NoPost == 0

\* the documents of coll whose _id is in S
Restrict(coll, S) == [x \in S |-> coll[x]]

\* Post.findOneAndDelete({ _id: postId, author: currentUser })
DeletePostWrite1(ps, me, postId) ==
    IF postId \in DOMAIN ps /\ ps[postId].author = me
    THEN Restrict(ps, DOMAIN ps \ {postId})
    ELSE ps

\* Comment.deleteMany({ post: postId })
DeletePostWrite2(cs, postId) ==
    Restrict(cs, {c \in DOMAIN cs : cs[c].post # postId})

\* the whole handler; fault = ordinal of the store call that throws (0: none)
DeletePostRun(ps, cs, me, postId, fault) ==
    IF fault = 1 THEN [posts |-> ps, comments |-> cs, status |-> 500]
    ELSE IF fault = 2
         THEN [posts |-> DeletePostWrite1(ps, me, postId), comments |-> cs,
               status |-> 500]
    ELSE [posts |-> DeletePostWrite1(ps, me, postId),
          comments |-> DeletePostWrite2(cs, postId), status |-> 200]

\* faulty variant: the query never finds the like
LikePostHasLiked_Never(ps, userId, postId) == FALSE

\* Post.findOne({ _id: postId, likes: userId })
LikePostHasLiked(ps, userId, postId) ==
    /\ postId \in DOMAIN ps
    /\ Contains(ps[postId].likes, userId)

\* Post.updateOne({ _id: postId }, { $pull: { likes: userId } })
LikePostPull(ps, userId, postId) ==
    IF postId \in DOMAIN ps
    THEN [ps EXCEPT ![postId].likes = Pull(@, userId)]
    ELSE ps

\* Post.updateOne({ _id: postId }, { $addToSet: { likes: userId } })
LikePostAddToSet(ps, userId, postId) ==
    IF postId \in DOMAIN ps
    THEN [ps EXCEPT ![postId].likes = AddToSet(@, userId)]
    ELSE ps

\* the whole handler; fault = ordinal of the store call that throws (0: none)
LikePostRun(ps, cs, userId, postId, fault) ==
    IF fault = 1 THEN [posts |-> ps, comments |-> cs, status |-> 500]
    ELSE IF postId \notin DOMAIN ps
         THEN [posts |-> ps, comments |-> cs, status |-> 404]
    ELSE IF fault = 2 THEN [posts |-> ps, comments |-> cs, status |-> 500]
    ELSE IF fault = 3 THEN [posts |-> ps, comments |-> cs, status |-> 500]
    ELSE IF LikePostHasLiked(ps, userId, postId)
         THEN [posts |-> LikePostPull(ps, userId, postId), comments |-> cs,
               status |-> 200]
    ELSE [posts |-> LikePostAddToSet(ps, userId, postId), comments |-> cs,
          status |-> 200]

\* createDummyPosts: post i is authored by user i
SeedPosts == [i \in 1..NumSeeded |-> [author |-> i, likes |-> << >>]]

\* createDummyComments: comment i is on post i, by the user after its author
SeedComments ==
    [i \in 1..NumSeeded |-> [author |-> (i % NumSeeded) + 1, post |-> i]]

\* seedDatabase without the friend connections, which no post handler reads
InitPosts ==
    /\ users = [u \in 1..NumSeeded |-> NewUser]
    /\ prevUsers = users
    /\ lastOp = NoOp
    /\ repeated = FALSE
    /\ nOps = 0
    /\ rq = [p \in Procs |-> NoRequest]
    /\ sched = << >>
    /\ posts = SeedPosts
    /\ comments = SeedComments
    /\ hist = [posts2 |-> posts, posts1 |-> posts, comments1 |-> comments]
    /\ resp = NoResp
    /\ walk = NoWalk

\* one post handler call completes with outcome r
FinishPost(name, me, postId, r) ==
    /\ nOps < MaxPostOps
    /\ posts' = r.posts
    /\ comments' = r.comments
    /\ hist' = [posts2 |-> hist.posts1, posts1 |-> posts, comments1 |-> comments]
    /\ lastOp' = [op |-> name, caller |-> me, target |-> postId, status |-> r.status]
    /\ repeated' = (lastOp = [op |-> name, caller |-> me, target |-> postId, status |-> 200])
    /\ nOps' = nOps + 1
    /\ UNCHANGED <<users, prevUsers, raceVars, suggestVars>>

deletePost(me, postId, fault) ==
    FinishPost("deletePost", me, postId,
               DeletePostRun(posts, comments, me, postId, fault))

likePost(me, postId, fault) ==
    FinishPost("likePost", me, postId,
               LikePostRun(posts, comments, me, postId, fault))

\* the callers are the first NumUsers users, the targets their posts and an
\* id that references no post
NextPosts ==
    \E me \in Users, postId \in Users \cup {NoPost} :
        \/ deletePost(me, postId, 0)
        \/ likePost(me, postId, 0)

SpecPosts == InitPosts /\ [][NextPosts]_vars

(***************************************************************************)
(* SpecFault: the same handler calls, one at a time, against a store whose  *)
(* calls may throw; the handler's catch block then answers 500.            *)
(***************************************************************************)
\* which store call of the handler throws: none, the first, second or third
Faults == {0, 1, 2, 3}

NextFault ==
    \E me \in Users, userId \in Ids, fault \in Faults :
        \/ sendRequest(me, userId, fault)
        \/ removeFriend(me, userId, fault)
        \/ removeFriendRequest(me, userId, fault)
        \/ acceptRequest(me, userId, fault)
        \/ rejectFriendRequest(me, userId, fault)

SpecFault == Init /\ [][NextFault]_vars

(***************************************************************************)
(* SpecRace: two handler calls run concurrently; every awaited store call   *)
(* is one step, and the steps of the two calls interleave freely.          *)
(***************************************************************************)
RaceOps == {"sendRequest", "removeFriend", "acceptRequest"}

\* the stores SpecRace starts from: one user has sent a request to another
PendingStore(A, B) ==
    [u \in Users |-> IF u = B THEN [NewUser EXCEPT !.friendRequests = <<A>>]
                     ELSE NewUser]

InitRace ==
    /\ \E A \in Users, B \in Users : A # B /\ users = PendingStore(A, B)
    /\ prevUsers = users
    /\ lastOp = NoOp
    /\ repeated = FALSE
    /\ nOps = 0
    /\ rq \in [Procs -> [op : RaceOps, caller : Users, target : Users,
                         pc : {"find"}, status : {0}]]
    /\ sched = << >>
    /\ hist = NoHist
    /\ posts = << >>
    /\ comments = << >>
    /\ resp = NoResp
    /\ walk = NoWalk

\* request p moves to position pc (answering status when pc is "done")
Step(p, pc, status, coll) ==
    /\ rq' = [rq EXCEPT ![p].pc = pc, ![p].status = status]
    /\ sched' = Append(sched, p)
    /\ users' = coll
    /\ UNCHANGED <<friendVars, contentVars, suggestVars>>

sendRequestFind(p) ==
    /\ rq[p].op = "sendRequest" /\ rq[p].pc = "find"
    /\ IF SendRequestFound(users, rq[p].caller, rq[p].target)
       THEN Step(p, "done", 403, users)
       ELSE Step(p, "findById", 0, users)

sendRequestFindById(p) ==
    /\ rq[p].op = "sendRequest" /\ rq[p].pc = "findById"
    /\ IF ~FindById(users, rq[p].target)
       THEN Step(p, "done", 403, users)
       ELSE Step(p, "write1", 0, users)

sendRequestUpdate(p) ==
    /\ rq[p].op = "sendRequest" /\ rq[p].pc = "write1"
    /\ Step(p, "done", 200, SendRequestWrite(users, rq[p].caller, rq[p].target))

removeFriendFind(p) ==
    /\ rq[p].op = "removeFriend" /\ rq[p].pc = "find"
    /\ IF ~RemoveFriendFound(users, rq[p].caller, rq[p].target)
       THEN Step(p, "done", 400, users)
       ELSE Step(p, "write1", 0, users)

removeFriendUpdate1(p) ==
    /\ rq[p].op = "removeFriend" /\ rq[p].pc = "write1"
    /\ Step(p, "write2", 0, RemoveFriendWrite1(users, rq[p].caller, rq[p].target))

removeFriendUpdate2(p) ==
    /\ rq[p].op = "removeFriend" /\ rq[p].pc = "write2"
    /\ Step(p, "done", 200, RemoveFriendWrite2(users, rq[p].caller, rq[p].target))

acceptRequestFind(p) ==
    /\ rq[p].op = "acceptRequest" /\ rq[p].pc = "find"
    /\ IF ~AcceptRequestFound(users, rq[p].caller, rq[p].target)
       THEN Step(p, "done", 400, users)
       ELSE Step(p, "write1", 0, users)

acceptRequestUpdate1(p) ==
    /\ rq[p].op = "acceptRequest" /\ rq[p].pc = "write1"
    /\ Step(p, "write2", 0, AcceptRequestWrite1(users, rq[p].caller, rq[p].target))

acceptRequestUpdate2(p) ==
    /\ rq[p].op = "acceptRequest" /\ rq[p].pc = "write2"
    /\ Step(p, "done", 200, AcceptRequestWrite2(users, rq[p].caller, rq[p].target))

NextRace ==
    \E p \in Procs :
        \/ sendRequestFind(p)
        \/ sendRequestFindById(p)
        \/ sendRequestUpdate(p)
        \/ removeFriendFind(p)
        \/ removeFriendUpdate1(p)
        \/ removeFriendUpdate2(p)
        \/ acceptRequestFind(p)
        \/ acceptRequestUpdate1(p)
        \/ acceptRequestUpdate2(p)

SpecRace == InitRace /\ [][NextRace]_vars


(***************************************************************************)
(* getSuggestUsers                                                         *)
(***************************************************************************)
\* the weights the three facets add as score
MutualFriendScore == 10
LikedPostScore == 5
CommentedPostScore == 3

\* req.user.id as authMiddleware sets it: the id as decoded from the JWT
\* payload, a hex string
StrId(u) == [type |-> "string", v |-> u]

\* new mongoose.Types.ObjectId(currentUserId)
ObjId(u) == [type |-> "ObjectId", v |-> u]

\* equality of a stored ObjectId with a value given in an aggregation pipeline:
\* User.aggregate() does not cast the pipeline to the schema, and values of
\* different BSON types are never equal
BsonEq(stored, q) == q.type = "ObjectId" /\ stored = q.v

\* { field: q } on an array field inside a pipeline
ArrayHas(arr, q) == \E i \in 1..Len(arr) : BsonEq(arr[i], q)

\* { friends: { $in: friends } }: the two arrays share an element
InAny(arr, list) == \E i \in 1..Len(list) : Contains(arr, list[i])

\* the conditions on _id and friendRequests that all three facets share:
\* _id: { $ne: currentUserId, $nin: friends }, friendRequests: { $ne: currentUserId }
FacetExclusion(coll, friends, cur, u) ==
    /\ ~BsonEq(u, cur)
    /\ ~Contains(friends, u)
    /\ ~ArrayHas(coll[u].friendRequests, cur)

\* facet mutualFriends
MutualFriendsMatch(coll, friends, cur, u) ==
    /\ InAny(coll[u].friends, friends)
    /\ FacetExclusion(coll, friends, cur, u)

\* facet likedPosts: $lookup of the posts whose author is u, then a match on
\* 'postsLikedByCurrentUser.likes'
LikedPostsMatch(coll, ps, friends, cur, u) ==
    /\ \E i \in 1..Len(ps) : ps[i].author = u /\ ArrayHas(ps[i].likes, cur)
    /\ FacetExclusion(coll, friends, cur, u)

\* facet commentedPosts: $lookup of the comments whose author is u, then a
\* match on 'commentsByCurrentUser.author'
CommentedPostsMatch(coll, cs, friends, cur, u) ==
    /\ \E i \in 1..Len(cs) : cs[i].author = u /\ BsonEq(cs[i].author, cur)
    /\ FacetExclusion(coll, friends, cur, u)

RECURSIVE Ascending(_)
\* the numbers of S as an array in ascending order
Ascending(S) ==
    IF S = {} THEN << >>
    ELSE LET m == CHOOSE x \in S : \A y \in S : x <= y
         IN  <<m>> \o Ascending(S \ {m})

\* the output of one facet: the matched users, each with
\* { $addFields: { score: { $literal: w } } }
FacetDocs(matched, w) ==
    LET ids == Ascending(matched)
    IN  [i \in 1..Len(ids) |-> [id |-> ids[i], score |-> w]]

\* faulty variant: the facet emits a user once for every friend shared with
\* the requester
MutualFriendsFacet_PerSharedFriend(coll, friends, cur) ==
    LET shared(u) == {i \in 1..Len(friends) : Contains(coll[u].friends, friends[i])}
        pairs == {u * (Len(friends) + 1) + i : u \in {v \in DOMAIN coll :
                        MutualFriendsMatch(coll, friends, cur, v)},
                                               i \in 1..Len(friends)}
        kept == Ascending({k \in pairs :
                    (k % (Len(friends) + 1)) \in shared(k \div (Len(friends) + 1))})
    IN  [i \in 1..Len(kept) |->
            [id |-> kept[i] \div (Len(friends) + 1), score |-> MutualFriendScore]]

\* facet mutualFriends: $match, $addFields score 10
MutualFriendsFacet(coll, friends, cur) ==
    FacetDocs({u \in DOMAIN coll : MutualFriendsMatch(coll, friends, cur, u)},
              MutualFriendScore)

\* facet likedPosts: $lookup, $match, $addFields score 5
LikedPostsFacet(coll, ps, friends, cur) ==
    FacetDocs({u \in DOMAIN coll : LikedPostsMatch(coll, ps, friends, cur, u)},
              LikedPostScore)

\* facet commentedPosts: $lookup, $match, $addFields score 3
CommentedPostsFacet(coll, cs, friends, cur) ==
    FacetDocs({u \in DOMAIN coll : CommentedPostsMatch(coll, cs, friends, cur, u)},
              CommentedPostScore)

\* $concatArrays: ['$mutualFriends', '$likedPosts', '$commentedPosts'], $unwind
Unwound(coll, ps, cs, friends, cur) ==
    MutualFriendsFacet(coll, friends, cur)
    \o LikedPostsFacet(coll, ps, friends, cur)
    \o CommentedPostsFacet(coll, cs, friends, cur)

RECURSIVE SumScores(_)
\* { $sum: '$suggestedUsers.score' } over the documents of one group
SumScores(docs) ==
    IF docs = << >> THEN 0 ELSE Head(docs).score + SumScores(Tail(docs))

\* $group by '$suggestedUsers._id': one group for every user some facet
\* matched, with the sum of the scores of its documents
Groups(coll, ps, cs, friends, cur) ==
    LET docs == Unwound(coll, ps, cs, friends, cur)
    IN  [u \in {docs[i].id : i \in 1..Len(docs)} |->
            SumScores(SelectSeq(docs, LAMBDA d : d.id = u))]

\* the users the fallback $match keeps
FallbackPool(coll, me) ==
    {u \in DOMAIN coll :
        /\ ~BsonEq(u, ObjId(me))
        /\ ~ArrayHas(coll[u].friendRequests, ObjId(me))}

\* $size: '$friends'
FriendsCount(coll, u) == Len(coll[u].friends)

\* the orders in which the elements of S can come out of the store
Orders(S) ==
    {f \in [1..Cardinality(S) -> S] : \A i, j \in DOMAIN f : i # j => f[i] # f[j]}

\* { $sort: { score: -1 } } on the groups: $group emits them in no particular
\* order and equal scores may come out in any order
ScoreOrders(groups) ==
    {f \in Orders(DOMAIN groups) :
        \A i, j \in DOMAIN f : i < j => groups[f[i]] >= groups[f[j]]}

\* faulty variant: the fallback pool is sorted by ascending friendsCount
FriendsCountOrders_Ascending(coll, me) ==
    {f \in Orders(FallbackPool(coll, me)) :
        \A i, j \in DOMAIN f :
            i < j => FriendsCount(coll, f[i]) <= FriendsCount(coll, f[j])}

\* { $sort: { friendsCount: -1 } } on the fallback pool
FriendsCountOrders(coll, me) ==
    {f \in Orders(FallbackPool(coll, me)) :
        \A i, j \in DOMAIN f :
            i < j => FriendsCount(coll, f[i]) >= FriendsCount(coll, f[j])}

\* faulty variant: the window ends one element early
SkipLimit_OneShort(list, n, m) ==
    SubSeq(list, n + 1, IF n + m - 1 < Len(list) THEN n + m - 1 ELSE Len(list))

\* { $skip: n }, { $limit: m }
SkipLimit(list, n, m) ==
    SubSeq(list, n + 1, IF n + m < Len(list) THEN n + m ELSE Len(list))

Max(a, b) == IF a >= b THEN a ELSE b

\* the fields of a stored user document: the schema's paths, the timestamps,
\* _id and __v
UserDocFields ==
    {"_id", "username", "email", "password", "friends", "friendRequests",
     "createdAt", "updatedAt", "__v"}

\* the user field of a $group document after
\* { $project: { 'user.friends': 0, 'user.friendRequests': 0 } }
GroupUserFields == UserDocFields \ {"friends", "friendRequests"}

\* a fallback document after $addFields friendsCount and
\* { $project: { friends: 0, friendRequests: 0, password: 0 } }
RandomUserFields ==
    (UserDocFields \cup {"friendsCount"}) \ {"friends", "friendRequests", "password"}

\* the fields of a $group document after $addFields friendsCount
GroupDocFields == {"_id", "user", "score", "friendsCount"}

\* one entry of the response: the user it describes, the document it is
\* ("group": a $group document, "user": its user field, "random": a fallback
\* document), its own fields and the fields of its embedded user document
Entry(u, kind) ==
    [id |-> u, kind |-> kind,
     fields |-> IF kind = "group" THEN GroupDocFields
                ELSE IF kind = "user" THEN GroupUserFields
                ELSE RandomUserFields,
     userFields |-> IF kind = "group" THEN GroupUserFields ELSE {}]

Entries(list, kind) == [i \in 1..Len(list) |-> Entry(list[i], kind)]

\* faulty variant: the catch block answers with the entries computed so far
Caught_SendsPartial(call, threw, partial) ==
    call @@ [status |-> 200, suggested |-> << >>, random |-> << >>,
             body |-> partial, skip |-> -1, scores |-> << >>,
             mutual |-> {}, liked |-> {}, commented |-> {}, threw |-> threw]

\* catch (error) { res.sendResponse(500, 'Internal server error', true) };
\* threw = ordinal of the store call that threw (0: the handler itself threw),
\* partial = the entries computed before
Caught(call, threw, partial) ==
    call @@ [status |-> 500, suggested |-> << >>, random |-> << >>,
             body |-> << >>, skip |-> -1, scores |-> << >>,
             mutual |-> {}, liked |-> {}, commented |-> {}, threw |-> threw]

\* the handler; fault = ordinal of the store call that throws (0: none),
\* scoredOrder and poolOrder = the order the two sorts produce.  The answer
\* records, besides the response body, what the two aggregates computed: the
\* users each facet matched, the score of every group, the two result lists
\* and the $skip of the fallback aggregate (-1: the aggregate was not run)
GetSuggestUsersRun(coll, ps, cs, me, limit, page, fault, scoredOrder, poolOrder) ==
    LET call == [me |-> me, limit |-> limit, page |-> page]
        friends == coll[me].friends
        cur == StrId(me)
        computed ==
            [scores |-> Groups(coll, ps, cs, friends, cur),
             mutual |-> {u \in DOMAIN coll : MutualFriendsMatch(coll, friends, cur, u)},
             liked |-> {u \in DOMAIN coll : LikedPostsMatch(coll, ps, friends, cur, u)},
             commented |-> {u \in DOMAIN coll :
                                CommentedPostsMatch(coll, cs, friends, cur, u)},
             threw |-> 0]
        suggestedUsers == SkipLimit(scoredOrder, limit * (page - 1), limit)
        fetchedUsersCount == (page - 1) * limit
        remaining == limit - Len(suggestedUsers)
        skip == Max(fetchedUsersCount - Len(suggestedUsers), 0)
        randomUsers == SkipLimit(poolOrder, skip, remaining)
    IN  IF fault = 1 THEN Caught(call, 1, << >>)
        ELSE IF ~FindById(coll, me) THEN Caught(call, 0, << >>)
        ELSE IF fault = 2 THEN Caught(call, 2, << >>)
        ELSE IF remaining > 0
             THEN IF fault = 3
                  THEN Caught(call, 3, Entries(suggestedUsers, "user"))
                  ELSE call @@ computed @@
                       [status |-> 200, suggested |-> suggestedUsers,
                        random |-> randomUsers, skip |-> skip,
                        body |-> Entries(suggestedUsers, "user")
                                    \o Entries(randomUsers, "random")]
        ELSE call @@ computed @@
             [status |-> 200, suggested |-> suggestedUsers,
              random |-> << >>, skip |-> -1,
              body |-> Entries(suggestedUsers, "group")]

(***************************************************************************)
(* SpecSuggest: getSuggestUsers called on stores of NumProfiles users.      *)
(***************************************************************************)
Profiles == 1..NumProfiles

\* the user whose token the calls carry; the stores range over every relation
\* among the profiles, so every requester is covered up to renaming of users
Requester == 1

\* what a store may hold: a friendship of a and b, a pending request by a to b,
\* a post of a that b liked, a post of a that b commented on
Facts ==
    {[k |-> "friend", a |-> a, b |-> b] : a \in Profiles, b \in Profiles}
    \cup {[k |-> "request", a |-> a, b |-> b] : a \in Profiles, b \in Profiles}
    \cup {[k |-> "like", a |-> a, b |-> b] : a \in Profiles, b \in Profiles}
    \cup {[k |-> "comment", a |-> a, b |-> b] : a \in Profiles, b \in Profiles}

\* friendships between any two users; requests, likes and comments between
\* the requester and another user, in either direction
WellFormedFact(f) ==
    IF f.k = "friend" THEN f.a < f.b
    ELSE f.a # f.b /\ Requester \in {f.a, f.b}

RECURSIVE SubsetsUpTo(_, _)
\* the subsets of S with at most k elements
SubsetsUpTo(S, k) ==
    IF k = 0 \/ S = {} THEN {{}}
    ELSE LET x == CHOOSE y \in S : TRUE
         IN  SubsetsUpTo(S \ {x}, k)
             \cup {T \cup {x} : T \in SubsetsUpTo(S \ {x}, k - 1)}

\* no request is pending between two users who are friends
Consistent(FS) ==
    \A f \in FS, g \in FS :
        (f.k = "friend" /\ g.k = "request") => {f.a, f.b} # {g.a, g.b}

Key(f) == f.a * (NumProfiles + 1) + f.b

\* the users collection holding the friendships and requests of FS
UsersOf(FS) ==
    [u \in Profiles |->
        [friends |-> Ascending({v \in Profiles :
                        \E f \in FS : f.k = "friend" /\ {f.a, f.b} = {u, v} /\ u # v}),
         friendRequests |-> Ascending({v \in Profiles :
                        \E f \in FS : f.k = "request" /\ f.a = v /\ f.b = u})]]

\* the posts of FS: first the liked ones, then the commented ones
PostsOf(FS) ==
    LET liked == Ascending({Key(f) : f \in {g \in FS : g.k = "like"}})
        commented == Ascending({Key(f) : f \in {g \in FS : g.k = "comment"}})
    IN  [i \in 1..Len(liked) |->
            [author |-> liked[i] \div (NumProfiles + 1),
             likes |-> <<liked[i] % (NumProfiles + 1)>>]]
        \o [i \in 1..Len(commented) |->
            [author |-> commented[i] \div (NumProfiles + 1), likes |-> << >>]]

\* the comments of FS, each on its post
CommentsOf(FS) ==
    LET nLiked == Cardinality({g \in FS : g.k = "like"})
        commented == Ascending({Key(f) : f \in {g \in FS : g.k = "comment"}})
    IN  [i \in 1..Len(commented) |->
            [author |-> commented[i] % (NumProfiles + 1), post |-> nLiked + i]]

\* the three collections hold FS and no handler has been called
StoreHolds(FS) ==
    /\ users = UsersOf(FS)
    /\ posts = PostsOf(FS)
    /\ comments = CommentsOf(FS)
    /\ prevUsers = users
    /\ lastOp = NoOp
    /\ repeated = FALSE
    /\ nOps = 0
    /\ rq = [p \in Procs |-> NoRequest]
    /\ sched = << >>
    /\ hist = NoHist

InitSuggest ==
    /\ \E FS \in SubsetsUpTo({f \in Facts : WellFormedFact(f)}, MaxFacts) :
        /\ Consistent(FS)
        /\ StoreHolds(FS)
    /\ resp = NoResp
    /\ walk = NoWalk

\* faulty variant: the handler stores the requester without its requests
getSuggestUsers_ClearsRequests(me, limit, page, fault) ==
    /\ resp = NoResp
    /\ resp' = GetSuggestUsersRun(users, posts, comments, me, limit, page, fault,
                                   << >>, << >>)
    /\ users' = [u \in DOMAIN users |->
                    IF u = me THEN [users[u] EXCEPT !.friendRequests = << >>]
                    ELSE users[u]]
    /\ UNCHANGED <<friendVars, raceVars, contentVars, walk>>

getSuggestUsers(me, limit, page, fault) ==
    /\ resp = NoResp
    /\ IF fault \in {1, 2} \/ ~FindById(users, me)
       THEN resp' = GetSuggestUsersRun(users, posts, comments, me, limit, page,
                                       fault, << >>, << >>)
       ELSE \E scoredOrder \in ScoreOrders(Groups(users, posts, comments,
                                                  users[me].friends, StrId(me))),
               poolOrder \in FriendsCountOrders(users, me) :
                resp' = GetSuggestUsersRun(users, posts, comments, me, limit, page,
                                           fault, scoredOrder, poolOrder)
    /\ UNCHANGED <<users, friendVars, raceVars, contentVars, walk>>

NextSuggest ==
    \E me \in {Requester, NoUser}, limit \in 1..MaxLimit, page \in 1..MaxPage,
       fault \in Faults :
        getSuggestUsers(me, limit, page, fault)

SpecSuggest == InitSuggest /\ [][NextSuggest]_vars

(***************************************************************************)
(* SpecScore: getSuggestUsers called on stores with up to MaxFriendships    *)
(* friendships and at most one like or comment.                             *)
(***************************************************************************)
InitScore ==
    /\ \E G \in SubsetsUpTo({f \in Facts : f.k = "friend" /\ WellFormedFact(f)},
                            MaxFriendships),
          C \in SubsetsUpTo({f \in Facts : f.k \in {"like", "comment"}
                                            /\ WellFormedFact(f)}, 1) :
        StoreHolds(G \cup C)
    /\ resp = NoResp
    /\ walk = NoWalk

\* const { limit = 10, page = 1 } = matchedData(req)
DefaultLimit == 10
DefaultPage == 1

\* GET /suggestions without query parameters
NextScore ==
    \E me \in {Requester, NoUser}, fault \in Faults :
        getSuggestUsers(me, DefaultLimit, DefaultPage, fault)

SpecScore == InitScore /\ [][NextScore]_vars

(***************************************************************************)
(* SpecPages: one client fetches the pages 1, 2, ... with one limit, and    *)
(* the same entries again with a single call; the store does not change    *)
(* and answers every sort in the same order.                                *)
(***************************************************************************)
InitPages ==
    /\ \E FS \in SubsetsUpTo({f \in Facts : WellFormedFact(f)}, MaxFacts) :
        /\ Consistent(FS)
        /\ StoreHolds(FS)
    /\ resp = NoResp
    /\ \E scoredOrder \in ScoreOrders(Groups(users, posts, comments,
                                             users[Requester].friends,
                                             StrId(Requester))),
          poolOrder \in FriendsCountOrders(users, Requester) :
        walk = [scored |-> scoredOrder, pool |-> poolOrder, limit |-> 0,
                pages |-> << >>, whole |-> NoResp]

\* GET /suggestions?limit=<limit>&page=<next page>
fetchPage(limit) ==
    /\ Len(walk.pages) < MaxPage
    /\ walk.limit \in {0, limit}
    /\ walk' = [walk EXCEPT
                    !.limit = limit,
                    !.pages = Append(@, GetSuggestUsersRun(users, posts, comments,
                                            Requester, limit, Len(walk.pages) + 1,
                                            0, walk.scored, walk.pool)),
                    !.whole = NoResp]
    /\ UNCHANGED <<users, friendVars, raceVars, contentVars, resp>>

\* GET /suggestions?limit=<pages fetched * limit>&page=1
fetchWhole ==
    /\ walk.pages # << >>
    /\ walk.whole = NoResp
    /\ walk' = [walk EXCEPT
                    !.whole = GetSuggestUsersRun(users, posts, comments, Requester,
                                                 Len(walk.pages) * walk.limit, 1,
                                                 0, walk.scored, walk.pool)]
    /\ UNCHANGED <<users, friendVars, raceVars, contentVars, resp>>

NextPages ==
    \/ \E limit \in 1..MaxLimit : fetchPage(limit)
    \/ fetchWhole

SpecPages == InitPages /\ [][NextPages]_vars

(***************************************************************************)
(* SpecLimit: getSuggestUsers called on a store of up to NumRegistered      *)
(* users who registered and did nothing else.                               *)
(***************************************************************************)
RECURSIVE Descending(_)
\* the domain of rank as an array: higher rank first, equal ranks in the
\* order the documents were inserted
Descending(rank) ==
    IF DOMAIN rank = {} THEN << >>
    ELSE LET m == CHOOSE x \in DOMAIN rank :
                    \A y \in DOMAIN rank :
                        rank[x] > rank[y] \/ (rank[x] = rank[y] /\ x <= y)
         IN  <<m>> \o Descending([x \in DOMAIN rank \ {m} |-> rank[x]])

\* User.create for every registration: no friends and no requests yet
InitLimit ==
    /\ \E n \in 1..NumRegistered : users = [u \in 1..n |-> NewUser]
    /\ posts = << >>
    /\ comments = << >>
    /\ prevUsers = users
    /\ lastOp = NoOp
    /\ repeated = FALSE
    /\ nOps = 0
    /\ rq = [p \in Procs |-> NoRequest]
    /\ sched = << >>
    /\ hist = NoHist
    /\ resp = NoResp
    /\ walk = NoWalk

\* getSuggestUsers on a store that returns equal sort keys in insertion order
getSuggestUsersInOrder(me, limit, page) ==
    /\ resp = NoResp
    /\ FindById(users, me)
    /\ resp' = GetSuggestUsersRun(users, posts, comments, me, limit, page, 0,
                    Descending(Groups(users, posts, comments, users[me].friends,
                                      StrId(me))),
                    Descending([u \in FallbackPool(users, me) |->
                                    FriendsCount(users, u)]))
    /\ UNCHANGED <<users, friendVars, raceVars, contentVars, walk>>

NextLimit ==
    \E limit \in 1..NumRegistered, page \in 1..MaxPage :
        getSuggestUsersInOrder(Requester, limit, page)

SpecLimit == InitLimit /\ [][NextLimit]_vars

(***************************************************************************)
(* Properties of the friend-request handlers under Spec.                   *)
(***************************************************************************)
Call(name, me, userId, status) ==
    [op |-> name, caller |-> me, target |-> userId, status |-> status]

\* the friends and friendRequests arrays of every user are as before the call
Unchanged == users = prevUsers

\* C3: after acceptRequest by B for sender A answers 200, having started with
\* A in B.friendRequests, each is in the other's friends and neither is in the
\* other's friendRequests.
C3_AcceptMakesFriends ==
    \A B \in Users, A \in Ids :
        (/\ lastOp = Call("acceptRequest", B, A, 200)
         /\ Contains(prevUsers[B].friendRequests, A))
        => /\ A \in Users
           /\ Contains(users[B].friends, A)
           /\ Contains(users[A].friends, B)
           /\ ~Contains(users[B].friendRequests, A)
           /\ ~Contains(users[A].friendRequests, B)

\* an accept that succeeded while the acceptor had also sent a request to the sender
C3_Witness ==
    \E B \in Users, A \in Users :
        /\ A # B
        /\ lastOp = Call("acceptRequest", B, A, 200)
        /\ Contains(prevUsers[B].friendRequests, A)
        /\ Contains(prevUsers[A].friendRequests, B)
        /\ Contains(users[A].friends, B)

\* C4: the friends relation is symmetric in every state reached by sequential
\* friend operations from a symmetric state.
C4_FriendsSymmetric ==
    \A X \in Users, Y \in Users :
        Contains(users[Y].friends, X) <=> Contains(users[X].friends, Y)

\* a friendship that both users listed has just been removed on both sides
C4_Witness ==
    \E X \in Users, Y \in Users :
        /\ X # Y
        /\ lastOp = Call("removeFriend", X, Y, 200)
        /\ Contains(prevUsers[Y].friends, X)
        /\ Contains(prevUsers[X].friends, Y)
        /\ ~Contains(users[Y].friends, X)
        /\ ~Contains(users[X].friends, Y)

\* C5: no user is in their own friends or friendRequests array.
C5_NoSelfReference ==
    \A u \in Users :
        /\ ~Contains(users[u].friends, u)
        /\ ~Contains(users[u].friendRequests, u)

\* C6: sendRequest by A to B answers with an error and changes nothing when A
\* is already in B.friendRequests or the two are friends; a second sendRequest
\* right after a successful one fails and leaves A once in B.friendRequests.
C6_DuplicateSendFails ==
    \A A \in Users, B \in Users :
        /\ (/\ lastOp.op = "sendRequest" /\ lastOp.caller = A /\ lastOp.target = B
            /\ \/ Contains(prevUsers[B].friendRequests, A)
               \/ Contains(prevUsers[B].friends, A)
               \/ Contains(prevUsers[A].friends, B))
           => (lastOp.status >= 400 /\ Unchanged)
        /\ (/\ lastOp.op = "sendRequest" /\ lastOp.caller = A /\ lastOp.target = B
            /\ repeated)
           => (lastOp.status >= 400 /\ Count(users[B].friendRequests, A) = 1)

\* the second of two consecutive sendRequest calls by the same user to the same user
C6_Witness ==
    \E A \in Users, B \in Users :
        /\ A # B
        /\ repeated
        /\ lastOp = Call("sendRequest", A, B, 403)
        /\ Count(users[B].friendRequests, A) = 1

\* C7: acceptRequest and rejectFriendRequest by B for A, and removeFriendRequest
\* by A towards B, answer with an error and change nothing when A is not in
\* B.friendRequests.
C7_NoPendingRequestFails ==
    /\ \A B \in Users, A \in Ids :
        (/\ lastOp.op \in {"acceptRequest", "rejectFriendRequest"}
         /\ lastOp.caller = B /\ lastOp.target = A
         /\ ~Contains(prevUsers[B].friendRequests, A))
        => (lastOp.status >= 400 /\ Unchanged)
    /\ \A A \in Users, B \in Ids :
        (/\ lastOp.op = "removeFriendRequest"
         /\ lastOp.caller = A /\ lastOp.target = B
         /\ ~(B \in Users /\ Contains(prevUsers[B].friendRequests, A)))
        => (lastOp.status >= 400 /\ Unchanged)

\* the sender of a pending request tried to accept it themselves
C7_Witness ==
    \E A \in Users, B \in Users :
        /\ A # B
        /\ lastOp = Call("acceptRequest", A, B, 400)
        /\ Contains(users[B].friendRequests, A)
        /\ ~Contains(users[A].friendRequests, B)

\* C8: removeFriend by A for B, when the two are friends, removes each from the
\* other's friends; the same call repeated right afterwards answers with an
\* error and changes nothing.
C8_RemoveFriendTwice ==
    \A A \in Users, B \in Users :
        /\ (/\ lastOp.op = "removeFriend" /\ lastOp.caller = A /\ lastOp.target = B
            /\ Contains(prevUsers[A].friends, B)
            /\ Contains(prevUsers[B].friends, A))
           => /\ lastOp.status = 200
              /\ ~Contains(users[A].friends, B)
              /\ ~Contains(users[B].friends, A)
        /\ (/\ lastOp.op = "removeFriend" /\ lastOp.caller = A /\ lastOp.target = B
            /\ repeated)
           => (lastOp.status >= 400 /\ Unchanged)

\* the second of two consecutive removeFriend calls on a pair that was friends
C8_Witness ==
    \E A \in Users, B \in Users :
        /\ A # B
        /\ repeated
        /\ lastOp = Call("removeFriend", A, B, 400)
        /\ ~Contains(users[A].friends, B)
        /\ ~Contains(users[B].friends, A)


(***************************************************************************)
(* Properties under SpecFault and SpecRace.                                *)
(***************************************************************************)
\* C9: when acceptRequest or removeFriend, called for another user, answers 500
\* because a store call threw, the friends and friendRequests arrays of both
\* users are as before the call (both records updated or neither).
C9_FailedCallChangesNothing ==
    (/\ lastOp.op \in {"acceptRequest", "removeFriend"}
     /\ lastOp.caller # lastOp.target
     /\ lastOp.status = 500)
        => Unchanged

\* request p is the call op by me for userId and has answered 200
Answered200(p, name, me, userId) ==
    /\ rq[p].op = name /\ rq[p].caller = me /\ rq[p].target = userId
    /\ rq[p].pc = "done" /\ rq[p].status = 200

\* the store calls ran in the order: p, p, q, q, p, q
RaceOrder(p, q) == sched = <<p, p, q, q, p, q>>

\* C10: there is an interleaving of acceptRequest by B for A with removeFriend
\* by A for B after which both calls have answered 200 and one of the two
\* lists the other as a friend while the other does not: the interleaving
\* accept.find, accept.write1, remove.find, remove.write1, accept.write2,
\* remove.write2 always ends that way.
C10_RaceLeavesAsymmetry ==
    \A p \in Procs, q \in Procs, A \in Users, B \in Users :
        (/\ p # q /\ A # B
         /\ rq[p].op = "acceptRequest" /\ rq[p].caller = B /\ rq[p].target = A
         /\ rq[q].op = "removeFriend" /\ rq[q].caller = A /\ rq[q].target = B
         /\ RaceOrder(p, q))
        => /\ Answered200(p, "acceptRequest", B, A)
           /\ Answered200(q, "removeFriend", A, B)
           /\ Contains(users[A].friends, B) # Contains(users[B].friends, A)

\* both calls have answered 200 and only one side lists the other as a friend
C10_Witness ==
    \E p \in Procs, q \in Procs, A \in Users, B \in Users :
        /\ p # q /\ A # B
        /\ Answered200(p, "acceptRequest", B, A)
        /\ Answered200(q, "removeFriend", A, B)
        /\ RaceOrder(p, q)
        /\ Contains(users[A].friends, B)
        /\ ~Contains(users[B].friends, A)


(***************************************************************************)
(* Properties of getSuggestUsers under SpecSuggest.                        *)
(***************************************************************************)
\* C1: a 200 response of getSuggestUsers lists neither the requester, nor a
\* member of the requester's friends, nor a user whose friendRequests holds
\* the requester, in its scored part and its fallback part alike.
C1_NoExcludedUserSuggested ==
    resp.status = 200 =>
        \A i \in 1..Len(resp.body) :
            LET u == resp.body[i].id
            IN  /\ u # resp.me
                /\ ~Contains(users[resp.me].friends, u)
                /\ ~Contains(users[u].friendRequests, resp.me)

\* C2: no user id appears twice in a 200 response of getSuggestUsers.
C2_NoDuplicateOnPage ==
    resp.status = 200 =>
        \A i, j \in 1..Len(resp.body) :
            i # j => resp.body[i].id # resp.body[j].id


(***************************************************************************)
(* Paging through the suggestions                                          *)
(***************************************************************************)
Min(a, b) == IF a <= b THEN a ELSE b

RECURSIVE Concat(_)
Concat(lists) == IF lists = << >> THEN << >> ELSE Head(lists) \o Concat(Tail(lists))

\* the users the entries of some responses describe
Described(body) == {body[i].id : i \in 1..Len(body)}

RECURSIVE Delivered(_, _)
\* number of fallback entries on the first n pages of the walk
Delivered(pages, n) ==
    IF n = 0 THEN 0 ELSE Len(pages[n].random) + Delivered(pages, n - 1)

\* C11: the users on the pages 1..k fetched with limit L are the users on
\* page 1 fetched with limit k * L from the same store
C11_PagesCoverWholeList ==
    walk.whole # NoResp =>
        Described(Concat([p \in 1..Len(walk.pages) |-> walk.pages[p].body]))
            = Described(walk.whole.body)

\* C12: the fallback aggregate on page p skips as many entries of the
\* fallback pool as the pages before p delivered
C12_FallbackSkipIsDelivered ==
    \A p \in 1..Len(walk.pages) :
        walk.pages[p].skip # -1 =>
            Len(SubSeq(walk.pool, 1, Min(walk.pages[p].skip, Len(walk.pool))))
                = Delivered(walk.pages, p - 1)

(***************************************************************************)
(* One page of suggestions                                                 *)
(***************************************************************************)
\* the score of u for the requester of the last call: the score of its
\* group, 0 for a user no facet matched
ScoreOf(u) == IF u \in DOMAIN resp.scores THEN resp.scores[u] ELSE 0

\* C13: on a page, an entry never precedes an entry with a higher score
C13_PageOrderedByScore ==
    resp.status = 200 =>
        \A i, j \in 1..Len(resp.body) :
            i < j => ScoreOf(resp.body[i].id) >= ScoreOf(resp.body[j].id)

\* the users that are not the requester and hold no pending request of the
\* requester
Eligible(coll, me) ==
    {u \in DOMAIN coll : u # me /\ ~Contains(coll[u].friendRequests, me)}

\* the page has limit entries, or there are fewer than limit eligible users
\* and the page has every one of them
Backfilled ==
    \/ Len(resp.body) = resp.limit
    \/ /\ Cardinality(Eligible(users, resp.me)) < resp.limit
       /\ Eligible(users, resp.me) \subseteq Described(resp.body)

C15_ScoredThenFallbackByFriendsCount ==
    (resp.status = 200 /\ Len(resp.suggested) < resp.limit) =>
        /\ Len(resp.body) = Len(resp.suggested) + Len(resp.random)
        /\ \A i \in 1..Len(resp.suggested) :
            /\ resp.body[i].id = resp.suggested[i]
            /\ resp.body[i].kind = "user"
            /\ resp.body[i].id \in DOMAIN resp.scores
        /\ \A i \in 1..Len(resp.random) :
            /\ resp.body[Len(resp.suggested) + i].id = resp.random[i]
            /\ resp.body[Len(resp.suggested) + i].kind = "random"
        /\ \A i, j \in 1..Len(resp.random) :
            i < j => FriendsCount(users, resp.random[i])
                        >= FriendsCount(users, resp.random[j])

\* a page with a scored candidate followed by fallback entries of different
\* friend counts
C15_Witness ==
    /\ resp.status = 200
    /\ resp.suggested # << >>
    /\ Len(resp.random) >= 2
    /\ FriendsCount(users, resp.random[1]) > FriendsCount(users, resp.random[2])

(***************************************************************************)
(* Scores                                                                  *)
(***************************************************************************)
\* some user is a friend of both a and b
SharesFriend(coll, a, b) ==
    \E f \in DOMAIN coll :
        Contains(coll[a].friends, f) /\ Contains(coll[b].friends, f)

Excluded(coll, me, u) ==
    \/ u = me
    \/ Contains(coll[me].friends, u)
    \/ Contains(coll[u].friendRequests, me)

\* C17: a user that is not excluded gets the weight of the likedPosts facet
\* exactly if it is in the likes of a post the requester authored
C17_LikerOfRequestersPost ==
    resp.status = 200 =>
        \A u \in DOMAIN users :
            ~Excluded(users, resp.me, u) =>
                (u \in resp.liked
                    <=> \E i \in 1..Len(posts) :
                            posts[i].author = resp.me /\ Contains(posts[i].likes, u))

\* C18: a user that is not excluded gets the weight of the commentedPosts
\* facet exactly if it authored a post the requester commented on
C18_AuthorOfPostRequesterCommented ==
    resp.status = 200 =>
        \A u \in DOMAIN users :
            ~Excluded(users, resp.me, u) =>
                (u \in resp.commented
                    <=> \E c \in 1..Len(comments) :
                            /\ comments[c].author = resp.me
                            /\ posts[comments[c].post].author = u)

(***************************************************************************)
(* Size and content of the response                                        *)
(***************************************************************************)
\* the largest page the API documents
LimitCap == 20

\* C19: a response has at most min(limit, 20) entries
C19_AtMostCappedLimit ==
    resp.status = 200 => Len(resp.body) <= Min(resp.limit, LimitCap)

\* C20: no entry of a response carries the password, the friends or the
\* friendRequests of a user, neither as its own field nor in its embedded
\* user document
C20_NoSecretFields ==
    resp.status = 200 =>
        \A i \in 1..Len(resp.body) :
            (resp.body[i].fields \cup resp.body[i].userFields)
                \cap {"password", "friends", "friendRequests"} = {}


\* the fields of a user summary
SummaryFields == {"_id", "username", "email", "createdAt", "friendsCount"}

\* C21: every entry of a 200 response has the fields of a user summary
C21_EntriesAreSummaries ==
    resp.status = 200 =>
        \A i \in 1..Len(resp.body) : SummaryFields \subseteq resp.body[i].fields

\* C22: a call whose requester id references no user, with no store call
\* failing, is answered 404
C22_UnknownRequesterNotFound ==
    (resp.status # 0 /\ ~FindById(users, resp.me) /\ resp.threw = 0)
        => resp.status = 404

\* C23: when one of the store calls of getSuggestUsers throws, the response
\* is 500 and has no entries
C23_StoreFailureIsInternalError ==
    resp.threw # 0 =>
        /\ resp.status = 500
        /\ resp.body = << >>
        /\ resp.suggested = << >>
        /\ resp.random = << >>

\* the fallback aggregate threw for a requester who has scored candidates
C23_Witness ==
    /\ resp.threw = 3
    /\ resp.me \in DOMAIN users
    /\ DOMAIN Groups(users, posts, comments, users[resp.me].friends,
                     StrId(resp.me)) # {}

\* C24: a getSuggestUsers call, whatever it answers, leaves the users, posts
\* and comments collections as they were
C24_SuggestReadsOnly ==
    [][resp' # resp =>
        /\ users' = users
        /\ posts' = posts
        /\ comments' = comments]_vars

\* a call was answered with entries on a store that holds requests
C24_Witness ==
    /\ resp.status = 200
    /\ resp.body # << >>
    /\ users = prevUsers
    /\ \E u \in DOMAIN users : users[u].friendRequests # << >>


(***************************************************************************)
(* Requests and friendships under Spec                                     *)
(***************************************************************************)
\* the collection coll with sender removed from the friendRequests of rcpt
\* and nothing else changed
WithoutRequest(coll, sender, rcpt) ==
    [u \in DOMAIN coll |->
        IF u = rcpt
        THEN [friends |-> coll[u].friends,
              friendRequests |-> SelectSeq(coll[u].friendRequests,
                                           LAMBDA x : x # sender)]
        ELSE coll[u]]

\* C25: a rejectFriendRequest by the recipient or a removeFriendRequest by
\* the sender that answers 200 removes the sender from the recipient's
\* friendRequests and changes nothing else
C25_RejectAndCancelRemoveOnlyTheRequest ==
    /\ (lastOp.op = "rejectFriendRequest" /\ lastOp.status = 200)
        => users = WithoutRequest(prevUsers, lastOp.target, lastOp.caller)
    /\ (lastOp.op = "removeFriendRequest" /\ lastOp.status = 200)
        => users = WithoutRequest(prevUsers, lastOp.caller, lastOp.target)

\* a request was rejected while the recipient held another request
C25_Witness ==
    /\ lastOp.op = "rejectFriendRequest"
    /\ lastOp.status = 200
    /\ Contains(prevUsers[lastOp.caller].friendRequests, lastOp.target)
    /\ ~Contains(users[lastOp.caller].friendRequests, lastOp.target)
    /\ users[lastOp.caller].friendRequests # << >>

\* C26: no user is at the same time in the friends and in the
\* friendRequests of another user
C26_FriendAndRequestExclusive ==
    \A X \in DOMAIN users, Y \in DOMAIN users :
        ~(Contains(users[Y].friends, X) /\ Contains(users[Y].friendRequests, X))

\* two users became friends after each had requested the other
C26_Witness ==
    /\ lastOp.op = "acceptRequest"
    /\ lastOp.status = 200
    /\ lastOp.caller # lastOp.target
    /\ Contains(prevUsers[lastOp.caller].friendRequests, lastOp.target)
    /\ Contains(prevUsers[lastOp.target].friendRequests, lastOp.caller)
    /\ Contains(users[lastOp.caller].friends, lastOp.target)


\* C27: when sendRequest by B for A runs concurrently with acceptRequest by B
\* for A, A having requested B, and both calls have been answered, B is not
\* both in A.friends and in A.friendRequests
C27_SendAcceptRaceKeepsExclusive ==
    \A p \in Procs, q \in Procs, A \in Users, B \in Users :
        (/\ p # q /\ A # B
         /\ prevUsers = PendingStore(A, B)
         /\ rq[p].op = "sendRequest" /\ rq[p].caller = B /\ rq[p].target = A
         /\ rq[q].op = "acceptRequest" /\ rq[q].caller = B /\ rq[q].target = A
         /\ rq[p].pc = "done" /\ rq[q].pc = "done")
        => ~(Contains(users[A].friends, B) /\ Contains(users[A].friendRequests, B))


\* C28: in the store the seed script wrote, X is in Y.friends exactly if Y
\* is in X.friends
C28_SeedIsSymmetric ==
    nOps = 0 =>
        \A X \in DOMAIN users, Y \in DOMAIN users :
            Contains(users[Y].friends, X) <=> Contains(users[X].friends, Y)


(***************************************************************************)
(* Posts                                                                   *)
(***************************************************************************)
\* C29: deletePost by a caller who is not the author of the post, or for an
\* id that references no post, leaves posts and comments as they were
C29_DeleteByNonAuthorChangesNothing ==
    (/\ lastOp.op = "deletePost"
     /\ ~(/\ lastOp.target \in DOMAIN hist.posts1
          /\ hist.posts1[lastOp.target].author = lastOp.caller))
        => /\ posts = hist.posts1
           /\ comments = hist.comments1

\* the users in the likes of post p of the collection ps
Likers(ps, p) == {ps[p].likes[i] : i \in 1..Len(ps[p].likes)}

\* C30: two consecutive likePost calls by one user on an existing post leave
\* the post with the likers it had before them; no user is twice in the likes
\* of a post; likePost for an id that references no post answers 404 and
\* changes nothing
C30_LikePostToggles ==
    /\ (lastOp.op = "likePost" /\ repeated /\ lastOp.target \in DOMAIN hist.posts2)
        => /\ lastOp.target \in DOMAIN posts
           /\ Likers(posts, lastOp.target) = Likers(hist.posts2, lastOp.target)
           /\ Contains(hist.posts1[lastOp.target].likes, lastOp.caller)
                # Contains(posts[lastOp.target].likes, lastOp.caller)
    /\ \A p \in DOMAIN posts, u \in DOMAIN users : Count(posts[p].likes, u) <= 1
    /\ (lastOp.op = "likePost" /\ lastOp.target \notin DOMAIN hist.posts1)
        => /\ lastOp.status = 404
           /\ posts = hist.posts1
           /\ comments = hist.comments1

\* a user liked and then unliked a post that another user likes
C30_Witness ==
    /\ lastOp.op = "likePost"
    /\ lastOp.status = 200
    /\ repeated
    /\ lastOp.target \in DOMAIN posts
    /\ \E u \in DOMAIN users :
        u # lastOp.caller /\ Contains(posts[lastOp.target].likes, u)
    /\ ~Contains(posts[lastOp.target].likes, lastOp.caller)
    /\ Contains(hist.posts1[lastOp.target].likes, lastOp.caller)

==========================================================================
